---- MODULE Spec2Model ----
(***************************************************************************)
(* Workout log application (muscle-app): the record model, the CSV/JSON    *)
(* import and export, the merge by identifier, the personal-record         *)
(* aggregate of the local variant (src/src/App.tsx) and the request        *)
(* handlers and the one-shot migration of the cloud variant                *)
(* (src/unnamed/part_000).                                                 *)
(*                                                                         *)
(* Representation.  A JavaScript string is a sequence of one-character     *)
(* strings.  A JavaScript number is a record [k, v]: k = "fin" with the    *)
(* integer v, or k = "nan", "inf", "ninf" (v = 0).  Numerals are decimal   *)
(* integers: the inputs of this model hold no fraction, exponent or hex    *)
(* form.  An identifier is an opaque record [k, n]: k = "ext" for an       *)
(* identifier a file supplies, k = "gen" for the n-th value the identifier *)
(* generator (crypto.randomUUID, Date.now()-Math.random(), the CSV suffix) *)
(* hands out, a generator that never repeats a value.                      *)
(***************************************************************************)
EXTENDS Integers, Sequences, FiniteSets, TLC

\* ------------------------------------------------------------------ bounds

\* Most entries the in-memory collection holds in the model.
MaxLogs == 2
\* Most identifiers the generator hands out in one run.
MaxGen == 2
\* Longest note of the CSV round-trip inputs.
MaxNoteLen == 2
\* Most requests the cloud variant issues in one run.
MaxReq == 3

\* ------------------------------------------------------- strings and numbers

\* The characters of the model, in UTF-16 code unit order (the order of < on strings).
CharOrder ==
    << "\n", "\r", " ", "\"", "+", ",", "-",
       "0", "1", "2", "3", "4", "5", "6", "7", "8", "9", ":",
       "I", "N", "T",
       "a", "b", "c", "d", "e", "f", "g", "h", "i", "j", "k", "l", "m",
       "n", "o", "p", "q", "r", "s", "t", "u", "v", "w", "x", "y", "z" >>

CodeOf ==
    [c \in { CharOrder[i] : i \in 1..Len(CharOrder) } |->
        CHOOSE i \in 1..Len(CharOrder) : CharOrder[i] = c]

Code(c) == CodeOf[c]

\* a < b on strings: the first differing code unit decides, a proper prefix is smaller.
StrLess(a, b) ==
    LET n == IF Len(a) < Len(b) THEN Len(a) ELSE Len(b)
    IN  IF a = b THEN FALSE
        ELSE IF \A i \in 1..n : a[i] = b[i] THEN Len(a) < Len(b)
        ELSE LET k == CHOOSE i \in 1..n :
                         a[i] # b[i] /\ \A j \in 1..(i - 1) : a[j] = b[j]
             IN  Code(a[k]) < Code(b[k])

Digits == << "0", "1", "2", "3", "4", "5", "6", "7", "8", "9" >>

IsDigit(c) == \E i \in 1..10 : Digits[i] = c

DigitVal(c) == (CHOOSE i \in 1..10 : Digits[i] = c) - 1

IsSpace(c) == c \in {" ", "\n", "\r"}

\* String.prototype.trim
RECURSIVE TrimLeft(_)
TrimLeft(s) == IF s # <<>> /\ IsSpace(Head(s)) THEN TrimLeft(Tail(s)) ELSE s

RECURSIVE TrimRight(_)
TrimRight(s) ==
    IF s # <<>> /\ IsSpace(s[Len(s)]) THEN TrimRight(SubSeq(s, 1, Len(s) - 1)) ELSE s

Trim(s) == TrimRight(TrimLeft(s))

\* String.prototype.slice(0, n)
Slice0(s, n) == SubSeq(s, 1, IF Len(s) < n THEN Len(s) ELSE n)

Fin(v) == [k |-> "fin", v |-> v]
NaN == [k |-> "nan", v |-> 0]
Infinity == [k |-> "inf", v |-> 0]
NegInfinity == [k |-> "ninf", v |-> 0]

IsNaN(x) == x.k = "nan"

\* a > b on numbers; false when either is NaN.
NumGT(a, b) ==
    CASE IsNaN(a) \/ IsNaN(b) -> FALSE
      [] a.k = "inf" -> b.k # "inf"
      [] a.k = "ninf" -> FALSE
      [] b.k = "inf" -> FALSE
      [] b.k = "ninf" -> TRUE
      [] OTHER -> a.v > b.v

\* a <= b on numbers; false when either is NaN.
NumLE(a, b) == ~IsNaN(a) /\ ~IsNaN(b) /\ ~NumGT(a, b)

\* a + b on numbers.
NumAdd(a, b) ==
    CASE IsNaN(a) \/ IsNaN(b) -> NaN
      [] a.k = "fin" /\ b.k = "fin" -> Fin(a.v + b.v)
      [] a.k = "fin" -> b
      [] b.k = "fin" -> a
      [] a.k = b.k -> a
      [] OTHER -> NaN

\* Whether a number is below 0.
IsNegative(a) == a.k = "ninf" \/ (a.k = "fin" /\ a.v < 0)

\* a * b on numbers.
NumMul(a, b) ==
    CASE IsNaN(a) \/ IsNaN(b) -> NaN
      [] a.k = "fin" /\ b.k = "fin" -> Fin(a.v * b.v)
      [] a = Fin(0) \/ b = Fin(0) -> NaN
      [] IsNegative(a) = IsNegative(b) -> Infinity
      [] OTHER -> NegInfinity

\* x || 0 on a number: NaN and 0 are falsy.
NumOrZero(x) == IF IsNaN(x) \/ x = Fin(0) THEN Fin(0) ELSE x

RECURSIVE NatToStr(_)
NatToStr(n) ==
    IF n < 10 THEN << Digits[n + 1] >>
    ELSE NatToStr(n \div 10) \o << Digits[(n % 10) + 1] >>

\* String(x) of a number.
NumToStr(x) ==
    CASE x.k = "nan" -> << "N", "a", "N" >>
      [] x.k = "inf" -> << "I", "n", "f", "i", "n", "i", "t", "y" >>
      [] x.k = "ninf" -> << "-", "I", "n", "f", "i", "n", "i", "t", "y" >>
      [] OTHER -> IF x.v < 0 THEN << "-" >> \o NatToStr(-x.v) ELSE NatToStr(x.v)

RECURSIVE DigitsToNat(_, _)
DigitsToNat(s, acc) ==
    IF s = <<>> THEN acc ELSE DigitsToNat(Tail(s), acc * 10 + DigitVal(Head(s)))

AllDigits(s) == s # <<>> /\ \A i \in 1..Len(s) : IsDigit(s[i])

\* Number(s) of a string: surrounding white space is ignored, the empty string is 0,
\* a signed decimal integer or Infinity is its value, anything else is NaN.
StrToNum(s) ==
    LET t == Trim(s)
        signed == t # <<>> /\ Head(t) \in {"+", "-"}
        body == IF signed THEN Tail(t) ELSE t
        neg == signed /\ Head(t) = "-"
    IN  IF t = <<>> THEN Fin(0)
        ELSE IF AllDigits(body)
             THEN Fin(IF neg THEN -DigitsToNat(body, 0) ELSE DigitsToNat(body, 0))
        ELSE IF body = << "I", "n", "f", "i", "n", "i", "t", "y" >>
             THEN (IF neg THEN NegInfinity ELSE Infinity)
        ELSE NaN

\* ------------------------------------------------------------- record model

Bench == << "b", "e", "n", "c", "h" >>
Squat == << "s", "q", "u", "a", "t" >>
Deadlift == << "d", "e", "a", "d" >>
ShoulderPress == << "p", "r", "e", "s", "s" >>
Rowing == << "r", "o", "w" >>
SideRaise == << "r", "a", "i", "s", "e" >>
LyingExtension == << "l", "y", "i", "n", "g" >>
EZBarCurl == << "c", "u", "r", "l" >>
Other == << "o", "t", "h", "e", "r" >>

\* The nine exercise labels (romanised), in display order.
EXERCISES ==
    << Bench, Squat, Deadlift, ShoulderPress, Rowing, SideRaise,
       LyingExtension, EZBarCurl, Other >>

ExerciseSet == { EXERCISES[i] : i \in 1..Len(EXERCISES) }

normalizeExercise(val) == IF val \in ExerciseSet THEN val ELSE Other

\* An identifier a file supplies, and the n-th identifier the generator hands out.
ExtId(n) == [k |-> "ext", n |-> n]
GenId(n) == [k |-> "gen", n |-> n]

\* A note: present with its text, or absent (undefined).
Note(s) == [has |-> TRUE, s |-> s]
Absent == [has |-> FALSE, s |-> <<>>]

\* note ?? ""
NoteText(n) == IF n.has THEN n.s ELSE <<>>

Log(id, date, exercise, weight, reps, note) ==
    [id |-> id, date |-> date, exercise |-> exercise,
     weight |-> weight, reps |-> reps, note |-> note]

\* isLog: id and date are strings and weight and reps are numbers (NaN included)
\* in every record of this model, so the membership of exercise is what can fail.
isLog(x) ==
    /\ x.id.k \in {"ext", "gen"}
    /\ Len(x.date) >= 0
    /\ x.weight.k \in {"fin", "nan", "inf", "ninf"}
    /\ x.reps.k \in {"fin", "nan", "inf", "ninf"}
    /\ x.exercise \in ExerciseSet

\* ------------------------------------------------------------------- CSV

CSV_HEADER ==
    << << "d", "a", "t", "e" >>,
       << "e", "x", "e", "r", "c", "i", "s", "e" >>,
       << "w", "e", "i", "g", "h", "t" >>,
       << "r", "e", "p", "s" >>,
       << "n", "o", "t", "e" >> >>

\* s.replace(/"/g, '""')
RECURSIVE DoubleQuotes(_)
DoubleQuotes(s) ==
    IF s = <<>> THEN <<>>
    ELSE (IF Head(s) = "\"" THEN << "\"", "\"" >> ELSE << Head(s) >>)
         \o DoubleQuotes(Tail(s))

\* /[",\n]/.test(v)
NeedsQuoting(v) == \E i \in 1..Len(v) : v[i] \in {"\"", ",", "\n"}

CsvField(v) == IF NeedsQuoting(v) THEN << "\"" >> \o v \o << "\"" >> ELSE v

\* xs.join(sep)
RECURSIVE Join(_, _)
Join(xs, sep) ==
    IF xs = <<>> THEN <<>>
    ELSE IF Len(xs) = 1 THEN xs[1]
    ELSE xs[1] \o sep \o Join(Tail(xs), sep)

\* One row of toCSV: the note has its quotes doubled, then each field is quoted
\* when it holds a quote, a comma or a newline.
CsvLine(l) ==
    Join(<< CsvField(l.date), CsvField(l.exercise),
            CsvField(NumToStr(l.weight)), CsvField(NumToStr(l.reps)),
            CsvField(DoubleQuotes(NoteText(l.note))) >>, << "," >>)

toCSV(logs) ==
    Join(CSV_HEADER, << "," >>) \o << "\n" >>
    \o Join([i \in 1..Len(logs) |-> CsvLine(logs[i])], << "\n" >>)

\* The positions 1..Len(s), in order.
Positions(s) == [i \in 1..Len(s) |-> i]

\* text.replace(/\r\n?/g, "\n"): a line feed that follows a carriage return goes
\* with it, and each carriage return becomes a line feed.
NormalizeNewlines(s) ==
    LET kept == SelectSeq(Positions(s),
                          LAMBDA i : ~(s[i] = "\n" /\ i > 1 /\ s[i - 1] = "\r"))
    IN  [j \in 1..Len(kept) |-> IF s[kept[j]] = "\r" THEN "\n" ELSE s[kept[j]]]

\* s.split(sep) for a one-character separator: the pieces between the separators,
\* empty ones included.
SplitOn(s, sep) ==
    LET at == SelectSeq(Positions(s), LAMBDA i : s[i] = sep)
    IN  [j \in 1..(Len(at) + 1) |->
            SubSeq(s, IF j = 1 THEN 1 ELSE at[j - 1] + 1,
                      IF j > Len(at) THEN Len(s) ELSE at[j] - 1)]

\* .filter(Boolean) on strings: the empty ones go.
NonEmpty(xs) == SelectSeq(xs, LAMBDA x : x # <<>>)

CsvLines(text) == NonEmpty(SplitOn(NormalizeNewlines(text), "\n"))

\* header.findIndex((h) => h === name), 1-based; 0 when there is none.
FindIndex(header, name) ==
    IF \E i \in 1..Len(header) : header[i] = name
    THEN CHOOSE i \in 1..Len(header) :
            header[i] = name /\ \A j \in 1..(i - 1) : header[j] # name
    ELSE 0

\* The scanner of one line: i is the position, cur the field being read, inQ whether
\* the scanner is inside a quoted field, row the fields read so far.
RECURSIVE ScanLine(_, _, _, _, _)
ScanLine(line, i, cur, inQ, row) ==
    IF i > Len(line) THEN Append(row, cur)
    ELSE LET ch == line[i] IN
         IF inQ
         THEN IF ch = "\""
              THEN IF i + 1 <= Len(line) /\ line[i + 1] = "\""
                   THEN ScanLine(line, i + 2, Append(cur, "\""), TRUE, row)
                   ELSE ScanLine(line, i + 1, cur, FALSE, row)
              ELSE ScanLine(line, i + 1, Append(cur, ch), TRUE, row)
         ELSE IF ch = ","
              THEN ScanLine(line, i + 1, <<>>, FALSE, Append(row, cur))
              ELSE IF ch = "\""
                   THEN ScanLine(line, i + 1, cur, TRUE, row)
                   ELSE ScanLine(line, i + 1, Append(cur, ch), FALSE, row)

\* row[i] ?? ""
Cell(row, i) == IF i >= 1 /\ i <= Len(row) THEN row[i] ELSE <<>>

\* parseCSV throws (lines[0] is undefined) when the text holds no non-empty line.
parseCSVThrows(text) == CsvLines(text) = <<>>

parseCSV(text) ==
    LET lines == CsvLines(text)
        cells == SplitOn(lines[1], ",")
        header == [i \in 1..Len(cells) |-> Trim(cells[i])]
        iDate == FindIndex(header, CSV_HEADER[1])
        iEx == FindIndex(header, CSV_HEADER[2])
        iW == FindIndex(header, CSV_HEADER[3])
        iR == FindIndex(header, CSV_HEADER[4])
        iN == FindIndex(header, CSV_HEADER[5])
    IN  [li \in 1..(Len(lines) - 1) |->
            LET row == ScanLine(lines[li + 1], 1, <<>>, FALSE, <<>>)
            IN  [date |-> Cell(row, iDate), exercise |-> Cell(row, iEx),
                 weight |-> Cell(row, iW), reps |-> Cell(row, iR),
                 note |-> Cell(row, iN)]]

\* .filter(Boolean) on the mapped rows: the null ones go.
DropNull(xs) ==
    LET kept == SelectSeq(xs, LAMBDA x : x.ok)
    IN  [i \in 1..Len(kept) |-> kept[i].log]

\* The validity test of csvRowsToLogs on the converted fields.
CsvRowRejected(date, w, rp) ==
    date = <<>> \/ IsNaN(w) \/ IsNaN(rp) \/ NumLE(w, Fin(0)) \/ NumLE(rp, Fin(0))

\* One row of csvRowsToLogs; its identifier is the n-th generated one.
CsvRowToLog(r, n) ==
    LET w == StrToNum(r.weight)
        rp == StrToNum(r.reps)
        date == Slice0(r.date, 10)
        ex == normalizeExercise(r.exercise)
        note == IF r.note # <<>> /\ Trim(r.note) # <<>> THEN Note(r.note) ELSE Absent
    IN  [ok |-> ~CsvRowRejected(date, w, rp),
         log |-> Log(GenId(n), date, ex, w, rp, note)]

\* csvRowsToLogs, the generator having handed out `base` identifiers before.
csvRowsToLogs(rows, base) ==
    DropNull([i \in 1..Len(rows) |-> CsvRowToLog(rows[i], base + i)])

\* ------------------------------------------------------------------ JSON

\* A JSON value as the import and load code read it: its typeof and its content.
JStr(s) == [t |-> "string", s |-> s, n |-> Fin(0)]
JNum(n) == [t |-> "number", s |-> <<>>, n |-> n]
JNull == [t |-> "null", s |-> <<>>, n |-> Fin(0)]
JUndef == [t |-> "undefined", s |-> <<>>, n |-> Fin(0)]

\* The id member of a stored or imported element: a string, or anything else.
JId(id) == [t |-> "string", id |-> id]
JNoId == [t |-> "undefined", id |-> ExtId(0)]

\* The identifier that is the empty string.
EmptyId == ExtId(0)

\* One element of a stored or imported array.
Raw(id, date, exercise, weight, reps, note) ==
    [id |-> id, date |-> date, exercise |-> exercise,
     weight |-> weight, reps |-> reps, note |-> note]

\* Number(v)
ToNumber(v) ==
    CASE v.t = "number" -> v.n
      [] v.t = "string" -> StrToNum(v.s)
      [] v.t = "null" -> Fin(0)
      [] OTHER -> NaN

\* v || "" is v
Truthy(v) ==
    CASE v.t = "number" -> ~IsNaN(v.n) /\ v.n # Fin(0)
      [] v.t = "string" -> v.s # <<>>
      [] OTHER -> FALSE

\* String(v) of a truthy value
ToStr(v) == IF v.t = "number" THEN NumToStr(v.n) ELSE v.s

\* normalizeExercise of a JSON value: only a string can be one of the nine.
normalizeExerciseJ(v) == IF v.t = "string" THEN normalizeExercise(v.s) ELSE Other

\* typeof note === "string" && note.trim() !== "" ? note : undefined
NoteOfJ_KeepBlank(v) == IF v.t = "string" THEN Note(v.s) ELSE Absent
NoteOfJ(v) == IF v.t = "string" /\ Trim(v.s) # <<>> THEN Note(v.s) ELSE Absent

\* How many of the first i elements carry no string id (each takes a generated one).
GenCount(arr, i) == Cardinality({ j \in 1..i : arr[j].id.t # "string" })

\* typeof l?.id === "string" ? l.id : `${Date.now()}-${Math.random()}`
IdOfJ(arr, i, base) ==
    IF arr[i].id.t = "string" THEN arr[i].id.id ELSE GenId(base + GenCount(arr, i))

\* The element-wise test of the stored snapshot's loader.
LoadRejected(id, date, w, r) ==
    id = EmptyId \/ date.t # "string" \/ date.s = <<>> \/ IsNaN(w) \/ IsNaN(r)

\* The initial collection read from the stored array `arr`.
LoadArray(arr) ==
    DropNull([i \in 1..Len(arr) |->
        LET l == arr[i]
            id == IdOfJ(arr, i, 0)
            w == ToNumber(l.weight)
            r == ToNumber(l.reps)
        IN  [ok |-> ~LoadRejected(id, l.date, w, r),
             log |-> Log(id, l.date.s, normalizeExerciseJ(l.exercise), w, r,
                         NoteOfJ(l.note))]])

\* A parsed document: JSON.parse threw ("error"), or the value is an array
\* ("array"), an object with an array member logs ("wrapper"), or any other value.
Doc(kind, items) == [kind |-> kind, items |-> items]

\* The array the loader and the JSON import take from a parsed document.
DocArray(doc) == IF doc.kind \in {"array", "wrapper"} THEN doc.items ELSE <<>>

\* useState initialiser of logs: nothing stored, a parse error or any other value
\* gives the empty collection.
LoadSnapshot(doc) == LoadArray(DocArray(doc))

\* The mapped and filtered batch of the JSON import.
JsonIncoming(arr, base) ==
    DropNull([i \in 1..Len(arr) |->
        LET l == arr[i]
            x == Log(IdOfJ(arr, i, base),
                     Slice0(IF Truthy(l.date) THEN ToStr(l.date) ELSE <<>>, 10),
                     normalizeExerciseJ(l.exercise), ToNumber(l.weight),
                     ToNumber(l.reps), NoteOfJ(l.note))
        IN  [ok |-> isLog(x), log |-> x]])

STORAGE_VERSION == 2

\* JSON.stringify of a number: NaN and the infinities are written as null.
StringifyNum(x) == IF x.k = "fin" THEN JNum(x) ELSE JNull

\* JSON.stringify of a Log, read back by JSON.parse: a member that is undefined is
\* left out, and reads as undefined.
StringifyLog(l) ==
    Raw(JId(l.id), JStr(l.date), JStr(l.exercise), StringifyNum(l.weight),
        StringifyNum(l.reps), IF l.note.has THEN JStr(l.note.s) ELSE JUndef)

\* The document exportJSON writes: JSON.stringify({version, logs}), parsed.
exportJSON(ls) ==
    [kind |-> "wrapper", items |-> [i \in 1..Len(ls) |-> StringifyLog(ls[i])],
     version |-> STORAGE_VERSION]

\* --------------------------------------------------------------- mergeLogs

\* xs.filter(isLog)
FilterIsLog(xs) == SelectSeq(xs, isLog)

\* map.set(l.id, l): a known key keeps its place and takes the new value, a new
\* key goes last.  m is the Map as the sequence of its values in insertion order.
MapSet_KeepFirst(m, l) ==
    IF \E j \in 1..Len(m) : m[j].id = l.id THEN m ELSE Append(m, l)
MapSet(m, l) ==
    IF \E j \in 1..Len(m) : m[j].id = l.id
    THEN [j \in 1..Len(m) |-> IF m[j].id = l.id THEN l ELSE m[j]]
    ELSE Append(m, l)

RECURSIVE MapOf(_, _)
MapOf(xs, m) == IF xs = <<>> THEN m ELSE MapOf(Tail(xs), MapSet(m, Head(xs)))

\* The comparator of the sort: a.date < b.date ? 1 : a.date > b.date ? -1 : 0
DateCmp_Ascending(a, b) == IF StrLess(a.date, b.date) THEN -1 ELSE IF StrLess(b.date, a.date) THEN 1 ELSE 0
DateCmp(a, b) == IF StrLess(a.date, b.date) THEN 1 ELSE IF StrLess(b.date, a.date) THEN -1 ELSE 0

\* Array.prototype.sort is stable: x goes after every element that does not
\* compare greater than it.
RECURSIVE InsertSorted(_, _)
InsertSorted(sorted, x) ==
    IF sorted = <<>> THEN << x >>
    ELSE IF DateCmp(Head(sorted), x) > 0 THEN << x >> \o sorted
    ELSE << Head(sorted) >> \o InsertSorted(Tail(sorted), x)

RECURSIVE SortByDateDesc(_, _)
SortByDateDesc(xs, sorted) ==
    IF xs = <<>> THEN sorted
    ELSE SortByDateDesc(Tail(xs), InsertSorted(sorted, Head(xs)))

\* The new collection mergeLogs sets from the previous one and the incoming batch.
mergeLogs(prev, incoming) ==
    SortByDateDesc(MapOf(FilterIsLog(prev \o incoming), <<>>), <<>>)

\* ------------------------------------------------------------- aggregates

\* A Date of the calendar: getFullYear(), getMonth() (0-based) and getDate().
DateOf(y, m, d) == [y |-> y, m |-> m, d |-> d]

\* String(n).padStart(2, "0")
Pad2(n) == IF n < 10 THEN << "0" >> \o NatToStr(n) ELSE NatToStr(n)

formatDate(date) ==
    NatToStr(date.y) \o << "-" >> \o Pad2(date.m + 1) \o << "-" >> \o Pad2(date.d)

\* logs.filter((l) => l.date === dateStr), and its complement.
FilterDate(ls, dateStr, same) ==
    SelectSeq(ls, LAMBDA l : (l.date = dateStr) = same)

ZeroByExercise == [e \in ExerciseSet |-> Fin(0)]

\* res starts at 0 for each exercise; an entry raises it when its weight is greater.
RECURSIVE BestFold(_, _)
BestFold(ls, res) ==
    IF ls = <<>> THEN res
    ELSE LET l == Head(ls) IN
         BestFold(Tail(ls),
                  IF NumGT(l.weight, res[l.exercise])
                  THEN [res EXCEPT ![l.exercise] = l.weight] ELSE res)

todayBestByExercise(ls, dateStr) == BestFold(FilterDate(ls, dateStr, TRUE), ZeroByExercise)

prevBestByExercise(ls, dateStr) == BestFold(FilterDate(ls, dateStr, FALSE), ZeroByExercise)

\* The exercises shown as a personal record on the selected date.
prSet_TieCounts(ls, dateStr) ==
    { ex \in ExerciseSet :
        /\ NumGT(todayBestByExercise(ls, dateStr)[ex], Fin(0))
        /\ ~NumGT(prevBestByExercise(ls, dateStr)[ex], todayBestByExercise(ls, dateStr)[ex]) }
prSet(ls, dateStr) ==
    { ex \in ExerciseSet :
        /\ NumGT(todayBestByExercise(ls, dateStr)[ex], Fin(0))
        /\ NumGT(todayBestByExercise(ls, dateStr)[ex], prevBestByExercise(ls, dateStr)[ex]) }

\* The length of the daily volume series.
lastNDays == 30

IsLeap(y) == (y % 4 = 0 /\ y % 100 # 0) \/ y % 400 = 0

\* The days of month m (0-based) of year y.
DaysInMonth(y, m) ==
    CASE m = 1 -> IF IsLeap(y) THEN 29 ELSE 28
      [] m \in {3, 5, 8, 10} -> 30
      [] OTHER -> 31

\* d.setDate(d.getDate() - 1): the day before, across months and years.
PrevDay(date) ==
    CASE date.d > 1 -> DateOf(date.y, date.m, date.d - 1)
      [] date.m > 0 -> DateOf(date.y, date.m - 1, DaysInMonth(date.y, date.m - 1))
      [] OTHER -> DateOf(date.y - 1, 11, 31)

\* d.setDate(d.getDate() - i)
RECURSIVE DaysBack(_, _)
DaysBack(date, i) == IF i = 0 THEN date ELSE DaysBack(PrevDay(date), i - 1)

\* The keys of the map in insertion order: the lastNDays days ending today.
DailyKeys(today) ==
    [k \in 1..lastNDays |-> formatDate(DaysBack(today, lastNDays - k))]

\* logs.forEach: an entry whose date is a key adds weight * reps to
\* (map.get(l.date) || 0).
RECURSIVE DailyFold(_, _, _)
DailyFold(ls, keys, vol) ==
    IF ls = <<>> THEN vol
    ELSE LET l == Head(ls)
             hit == { k \in 1..Len(keys) : keys[k] = l.date }
         IN  DailyFold(Tail(ls), keys,
                 [k \in 1..Len(keys) |->
                    IF k \in hit
                    THEN NumAdd(NumOrZero(vol[k]), NumMul(l.weight, l.reps))
                    ELSE vol[k]])

dailyData(ls, today) ==
    LET keys == DailyKeys(today)
        vol == DailyFold(ls, keys, [k \in 1..lastNDays |-> Fin(0)])
    IN  [k \in 1..lastNDays |-> [date |-> keys[k], vol |-> vol[k]]]

\* The values new Date() takes in the model.
Todays == { DateOf(2024, 0, 2), DateOf(2024, 0, 30), DateOf(2024, 2, 1) }

\* ------------------------------------------------------------------ inputs

Date1 == << "2", "0", "2", "4", "-", "0", "1", "-", "0", "1" >>
Date2 == << "2", "0", "2", "4", "-", "0", "1", "-", "0", "2" >>
\* A date with a time component: 13 characters that slice(0, 10) cuts to Date2.
Date2Time == Date2 \o << "T", "0", "9" >>

\* The days the calendar selects in the model: 1 and 2 January 2024.
Days == { DateOf(2024, 0, 1), DateOf(2024, 0, 2) }

\* The form submissions of the model: exercise, weight, reps and note as typed.
Form(exercise, weight, reps, note) ==
    [exercise |-> exercise, weight |-> weight, reps |-> reps, note |-> note]

Forms ==
    { Form(Bench, << "8", "0" >>, << "5" >>, <<>>),
      Form(Bench, << "8", "5" >>, << "5" >>, << " ", "x", " " >>),
      Form(Bench, << "0" >>, << "5" >>, <<>>),
      Form(Squat, << "a", "b" >>, <<>>, << " " >>) }

\* The elements stored snapshots and imported JSON files are made of.
RawValid1 == Raw(JId(ExtId(1)), JStr(Date1), JStr(Bench), JNum(Fin(80)), JNum(Fin(5)), JUndef)
RawValid1b == Raw(JId(ExtId(1)), JStr(Date2), JStr(Bench), JNum(Fin(85)), JNum(Fin(5)), JStr(<< "x" >>))
RawValid2 == Raw(JId(ExtId(2)), JStr(Date2), JStr(Squat), JStr(<< "8", "5" >>), JNum(Fin(3)), JStr(<< " " >>))
RawNoId == Raw(JNoId, JStr(Date2Time), JStr(<< "y", "o", "g", "a" >>), JNum(Fin(85)), JNum(Fin(5)), JNull)
RawZeroWeight == Raw(JId(ExtId(2)), JStr(Date1), JStr(Bench), JNum(Fin(0)), JNum(Fin(5)), JUndef)
RawNotNumeric == Raw(JId(ExtId(2)), JStr(Date1), JStr(Squat), JStr(<< "a", "b" >>), JNum(Fin(5)), JUndef)
RawLongDate == Raw(JId(ExtId(1)), JStr(Date2Time), JStr(Bench), JNum(Fin(80)), JNum(Fin(5)), JUndef)
RawNoDate == Raw(JId(ExtId(2)), JNull, JStr(Bench), JNum(Fin(80)), JNum(Fin(-1)), JUndef)
\* What localStorage holds under STORAGE_KEY when the application starts.
Snapshots ==
    { Doc("error", <<>>),
      Doc("wrapper", << RawValid1 >>),
      Doc("wrapper", << RawValid1, RawValid1b >>),
      Doc("array", << RawNoId, RawZeroWeight >>),
      Doc("array", << RawNotNumeric, RawNoDate, RawValid2 >>),
      Doc("wrapper", << RawLongDate >>) }

\* One row of a CSV file, and a CSV file with the header row.
CsvRow(date, exercise, weight, reps, note) ==
    Join(<< date, exercise, weight, reps, note >>, << "," >>)

CsvText(rows) == Join(CSV_HEADER, << "," >>) \o << "\n" >> \o Join(rows, << "\n" >>)

\* A file the user picks: its extension, and its content as a parsed JSON document
\* or as CSV text.
File(ext, doc, text) == [ext |-> ext, doc |-> doc, text |-> text]

JsonFiles ==
    { File("json", d, <<>>) :
        d \in { Doc("error", <<>>), Doc("other", <<>>),
                Doc("wrapper", << RawValid1b, RawValid2 >>),
                Doc("array", << RawValid1, RawValid1b, RawZeroWeight >>),
                Doc("array", << RawNoId, RawZeroWeight >>),
                Doc("array", << RawNotNumeric >>) } }

CsvTexts ==
    { <<>>,
      << "a", "b", "\r", "\n", "c" >>,
      CsvText(<< CsvRow(Date1, Squat, << "1", "0", "0" >>, << "3" >>,
                        << "\"", "o", "k", ",", " ", "g", "o", "\"" >>) >>),
      CsvText(<< CsvRow(Date2Time, << "y", "o", "g", "a" >>,
                        << "I", "n", "f", "i", "n", "i", "t", "y" >>, << "5" >>, <<>>),
                 CsvRow(Date1, Bench, << "0" >>, << "5" >>, << " " >>) >>) }

CsvFiles == { File("csv", Doc("error", <<>>), t) : t \in CsvTexts }

\* parseCSV of each CSV text of the model, computed once: what parseCSV(file.text)
\* returns whenever the import reads that file.
ParsedCsv == [t \in CsvTexts |-> IF parseCSVThrows(t) THEN <<>> ELSE parseCSV(t)]

\* Whether parseCSV throws on each CSV text of the model, computed once.
CsvThrows == [t \in CsvTexts |-> parseCSVThrows(t)]

OtherFiles == { File("txt", Doc("error", <<>>), CsvText(<<>>)) }

Files == JsonFiles \cup CsvFiles \cup OtherFiles

\* ------------------------------------------------------- the local variant

VARIABLES
    logs,           \* the in-memory collection, a sequence of Log records
    selectedDate,   \* the calendar's selected Date
    nextId,         \* how many identifiers the generator has handed out
    toast,          \* the message on screen: [msg, n]
    val,            \* the run of both import paths on one candidate record
    mrg,            \* the run of mergeLogs on a collection and a batch
    csv,            \* the run of toCSV, parseCSV and csvRowsToLogs on a collection
    remote,         \* cloud variant: the rows the store holds for the user, oldest first
    rowSeq,         \* cloud variant: how many rows the store has created
    snapshot,       \* cloud variant: what localStorage holds under STORAGE_KEY
    pending,        \* cloud variant: the requests in flight
    issued,         \* cloud variant: how many requests were sent
    lastReply,      \* cloud variant: the reply most recently handed to its handler
    now,            \* the clock, in units of 1000 ms
    timers,         \* the dismissal timers setTimeout holds: [by, due]
    render,         \* the number of the component's current render
    handleOf,       \* the _t property of the showToast function of each live render
    shownAt,        \* when showToast was last called
    inflight,       \* the imports awaiting file.text(): [file, by]
    form,           \* the form fields: exercise, weight, reps and note as typed
    variant         \* which build runs the form: "local" or "cloud"

localVars == << logs, selectedDate, nextId, toast >>

pureVars == << val, mrg, csv >>

cloudVars == << remote, rowSeq, snapshot, pending, issued, lastReply >>

formVars == << form, variant >>

uiVars == << now, timers, render, handleOf, shownAt, inflight, formVars >>

vars == << localVars, pureVars, cloudVars, uiVars >>

\* The variables each part of the model leaves alone.
notLocal == << pureVars, cloudVars, uiVars >>
notVal == << localVars, mrg, csv, cloudVars, uiVars >>
notMrg == << localVars, val, csv, cloudVars, uiVars >>
notCsv == << localVars, val, mrg, cloudVars, uiVars >>

\* A run that is not part of the specification at hand.
Idle == [stage |-> "idle"]

LocalIdle ==
    /\ logs = <<>>
    /\ selectedDate = DateOf(2024, 0, 1)
    /\ nextId = 0
    /\ toast = [msg |-> "", n |-> 0]

\* No legacy snapshot: localStorage.getItem returns null.
NoSnapshot == [kind |-> "none", items |-> <<>>]

NoReply == [kind |-> "none", result |-> "none"]

CloudIdle ==
    /\ remote = <<>>
    /\ rowSeq = 0
    /\ snapshot = NoSnapshot
    /\ pending = {}
    /\ issued = 0
    /\ lastReply = NoReply

\* The _t of a showToast function that has set no timer yet.
NoTimer == [by |-> 0, due |-> 0]

\* The form as useState initialises it.
InitialForm == [exercise |-> Bench, weight |-> <<>>, reps |-> <<>>, note |-> <<>>]

\* The form is followed by the form specification only.
FormIdle == form = InitialForm /\ variant = "none"

TimerIdle ==
    /\ now = 0
    /\ timers = {}
    /\ render = 1
    /\ handleOf = [r \in {1} |-> NoTimer]
    /\ shownAt = 0
    /\ inflight = {}

UiIdle == TimerIdle /\ FormIdle

Toast(msg, n) == [msg |-> msg, n |-> n]

\* The upper limits the form sets on weight and reps.
WeightLimit == 500
RepsLimit == 100

\* weightError / repsError: a message unless the field is empty or a number in range.
FieldError(text, limit) ==
    /\ text # <<>>
    /\ \/ IsNaN(StrToNum(text))
       \/ NumLE(StrToNum(text), Fin(0))
       \/ NumGT(StrToNum(text), Fin(limit))

canAdd(f) ==
    /\ f.exercise # <<>>
    /\ f.weight # <<>>
    /\ f.reps # <<>>
    /\ ~FieldError(f.weight, WeightLimit)
    /\ ~FieldError(f.reps, RepsLimit)

\* The initial state: the collection read from the stored snapshot.
LocalInit ==
    \E doc \in Snapshots :
        /\ logs = LoadSnapshot(doc)
        /\ nextId = GenCount(DocArray(doc), Len(DocArray(doc)))
        /\ selectedDate \in Days
        /\ toast = Toast("", 0)

handleAddStep(f) ==
    IF canAdd(f)
       THEN /\ Len(logs) < MaxLogs
            /\ nextId < MaxGen
            /\ logs' = << Log(GenId(nextId + 1), formatDate(selectedDate), f.exercise,
                             StrToNum(f.weight), StrToNum(f.reps),
                             IF Trim(f.note) = <<>> THEN Absent ELSE Note(Trim(f.note))) >>
                       \o logs
            /\ nextId' = nextId + 1
            /\ toast' = Toast("added", 0)
            /\ UNCHANGED selectedDate
       ELSE UNCHANGED localVars

handleAdd(f) == handleAddStep(f) /\ UNCHANGED notLocal

\* prev.filter((log) => log.id !== id)
WithoutId_FirstOnly(ls, id) ==
    IF \E i \in 1..Len(ls) : ls[i].id = id
    THEN LET k == CHOOSE i \in 1..Len(ls) :
                    ls[i].id = id /\ \A j \in 1..(i - 1) : ls[j].id # id
         IN  SubSeq(ls, 1, k - 1) \o SubSeq(ls, k + 1, Len(ls))
    ELSE ls
WithoutId(ls, id) == SelectSeq(ls, LAMBDA l : l.id # id)

handleDeleteStep(id) ==
    /\ logs' = WithoutId(logs, id)
    /\ toast' = Toast("deleted", 0)
    /\ UNCHANGED << selectedDate, nextId >>

handleDelete(id) == handleDeleteStep(id) /\ UNCHANGED notLocal

setSelectedDate(d) ==
    /\ selectedDate' = d
    /\ UNCHANGED << logs, nextId, toast >>
    /\ UNCHANGED notLocal

\* The import of a .json file whose text parses.
ImportJson(file) ==
    LET arr == DocArray(file.doc)
        incoming == JsonIncoming(arr, nextId)
    IN  /\ logs' = mergeLogs(logs, incoming)
        /\ nextId' = nextId + GenCount(arr, Len(arr))
        /\ toast' = Toast("jsonImported", Len(incoming))

\* The import of a .csv file whose text holds a header line.
ImportCsv(file) ==
    LET rows == ParsedCsv[file.text]
        incoming == csvRowsToLogs(rows, nextId)
    IN  /\ logs' = mergeLogs(logs, incoming)
        /\ nextId' = nextId + Len(rows)
        /\ toast' = Toast("csvImported", Len(incoming))

\* What the import does with a file that is neither .json nor .csv.
RejectExtension_Merging ==
    /\ logs' = mergeLogs(logs, <<>>)
    /\ toast' = Toast("badExtension", 0)
    /\ UNCHANGED nextId
RejectExtension ==
    /\ toast' = Toast("badExtension", 0)
    /\ UNCHANGED << logs, nextId >>

\* The catch block of the import.
ImportFailed ==
    /\ toast' = Toast("importFailed", 0)
    /\ UNCHANGED << logs, nextId >>

\* An import of this file fails: its extension is neither .json nor .csv, or its
\* text does not parse (JSON.parse throws; the CSV text holds no header line).
ImportFails(file) ==
    \/ file.ext \notin {"json", "csv"}
    \/ file.ext = "json" /\ file.doc.kind = "error"
    \/ file.ext = "csv" /\ CsvThrows[file.text]

onImportFileStep(file) ==
    /\ UNCHANGED selectedDate
    /\ CASE file.ext = "json" ->
              IF file.doc.kind = "error" THEN ImportFailed ELSE ImportJson(file)
         [] file.ext = "csv" ->
              IF CsvThrows[file.text] THEN ImportFailed ELSE ImportCsv(file)
         [] OTHER -> RejectExtension
    /\ Len(logs') <= MaxLogs
    /\ nextId' <= MaxGen

onImportFile(file) == onImportFileStep(file) /\ UNCHANGED notLocal

LocalNext ==
    \/ \E f \in Forms : handleAdd(f)
    \/ \E i \in 1..Len(logs) : handleDelete(logs[i].id)
    \/ \E d \in Days : setSelectedDate(d)
    \/ \E file \in Files : onImportFile(file)

Init == LocalInit /\ val = Idle /\ mrg = Idle /\ csv = Idle /\ CloudIdle /\ UiIdle

Spec == Init /\ [][LocalNext]_vars

\* ------------------------------------------------- the toast and its timer

\* Latest clock value of the model, in units of 1000 ms.
MaxTime == 3

\* Most renders of the component in the model.
MaxRenders == 4

\* Most imports awaiting file.text() at once in the model.
MaxImports == 1

\* The delay of the dismissal timer: setTimeout(..., 2000), in units of 1000 ms.
Delay == 2

\* The renders whose showToast function can still be called: the current one, and
\* the ones the pending continuations of onImportFile closed over.
Live(r, imports) == {r} \cup { i.by : i \in imports }

\* The component renders again when a state setter changed its state: every render
\* evaluates `const showToast = (msg) => {...}` anew, a function without a _t.
Rerender(changed, h, imports) ==
    IF changed
    THEN /\ render < MaxRenders
         /\ render' = render + 1
         /\ handleOf' = [r \in Live(render + 1, imports) |->
                            IF r \in DOMAIN h THEN h[r] ELSE NoTimer]
    ELSE /\ render' = render
         /\ handleOf' = [r \in Live(render, imports) |-> h[r]]

\* showToast as the render r defined it: clearTimeout of the timer its own _t
\* names, then setTimeout and the new timer kept in its own _t.
showToast(r, changed, imports) ==
    LET t == [by |-> r, due |-> now + Delay]
    IN  /\ timers' = (timers \ {handleOf[r]}) \cup {t}
        /\ shownAt' = now
        /\ Rerender(changed, [handleOf EXCEPT ![r] = t], imports)

ToastFiles ==
    { File("json", Doc("wrapper", << RawValid1 >>), <<>>),
      File("json", Doc("error", <<>>), <<>>),
      File("txt", Doc("error", <<>>), <<>>) }

ToastForms ==
    { Form(Bench, << "8", "0" >>, << "5" >>, <<>>),
      Form(Bench, << "0" >>, << "5" >>, <<>>) }

ToastSnapshots == { Doc("error", <<>>), Doc("wrapper", << RawValid1 >>) }

ToastInit ==
    /\ \E doc \in ToastSnapshots :
         /\ logs = LoadSnapshot(doc)
         /\ nextId = GenCount(DocArray(doc), Len(DocArray(doc)))
    /\ selectedDate \in Days
    /\ toast = Toast("", 0)
    /\ TimerIdle
    /\ FormIdle

\* handleAdd with the timer of its toast; setLogs always changes the state.
ToastAdd(f) ==
    /\ handleAddStep(f)
    /\ IF canAdd(f)
       THEN showToast(render, TRUE, inflight)
       ELSE UNCHANGED << timers, shownAt, render, handleOf >>
    /\ UNCHANGED << now, inflight, pureVars, cloudVars, formVars >>

\* handleDelete with the timer of its toast; filter always returns a new array.
ToastDelete(id) ==
    /\ handleDeleteStep(id)
    /\ showToast(render, TRUE, inflight)
    /\ UNCHANGED << now, inflight, pureVars, cloudVars, formVars >>

\* onImportFile up to `await file.text()`: the continuation keeps the showToast
\* of the render that handled the event.
ImportStart(file) ==
    /\ Cardinality(inflight) < MaxImports
    /\ inflight' = inflight \cup { [file |-> file, by |-> render] }
    /\ UNCHANGED << localVars, now, timers, render, handleOf, shownAt,
                    pureVars, cloudVars, formVars >>

\* onImportFile after the await.  mergeLogs always sets a new array; the branches
\* that only call showToast change the state when the message differs.
ImportFinish(i) ==
    /\ i \in inflight
    /\ onImportFileStep(i.file)
    /\ inflight' = inflight \ {i}
    /\ showToast(i.by, ~ImportFails(i.file) \/ toast' # toast, inflight \ {i})
    /\ UNCHANGED << now, pureVars, cloudVars, formVars >>

\* The calendar sets another date.
ToastSelectDate(d) ==
    /\ selectedDate' = d
    /\ Rerender(d # selectedDate, handleOf, inflight)
    /\ UNCHANGED << logs, nextId, toast, now, timers, shownAt, inflight,
                    pureVars, cloudVars, formVars >>

\* A dismissal timer runs its callback setToast("").
TimerFires(t) ==
    /\ t \in timers
    /\ now >= t.due
    /\ timers' = timers \ {t}
    /\ toast' = Toast("", 0)
    /\ Rerender(toast # Toast("", 0), handleOf, inflight)
    /\ UNCHANGED << logs, selectedDate, nextId, now, shownAt, inflight,
                    pureVars, cloudVars, formVars >>

\* 1000 ms pass.
Tick ==
    /\ now < MaxTime
    /\ now' = now + 1
    /\ UNCHANGED << localVars, timers, render, handleOf, shownAt, inflight,
                    pureVars, cloudVars, formVars >>

ToastNext ==
    \/ \E f \in ToastForms : ToastAdd(f)
    \/ \E i \in 1..Len(logs) : ToastDelete(logs[i].id)
    \/ \E file \in ToastFiles : ImportStart(file)
    \/ \E i \in inflight : ImportFinish(i)
    \/ \E d \in Days : ToastSelectDate(d)
    \/ \E t \in timers : TimerFires(t)
    \/ Tick

InitToast == ToastInit /\ val = Idle /\ mrg = Idle /\ csv = Idle /\ CloudIdle

SpecToast == InitToast /\ [][ToastNext]_vars

\* ------------------------------------------- the import paths on one candidate

\* A candidate record as text: the cells of a CSV row, the members of a JSON element.
Candidate(date, weight, reps) == [date |-> date, weight |-> weight, reps |-> reps]

NumberTexts ==
    { <<>>, << "0" >>, << "-", "1" >>, << "8", "0" >>, << " ", "5", " " >>,
      << "a", "b" >>, << "I", "n", "f", "i", "n", "i", "t", "y" >> }

Candidates ==
    { Candidate(d, w, r) :
        d \in { <<>>, Date1, Date2Time }, w \in NumberTexts, r \in NumberTexts }

\* The candidate as the only element of a JSON file: every member a JSON string, or
\* weight and reps written as JSON numbers when they are finite numerals.
CandidateJson(c, asNumbers) ==
    LET member(text) ==
            IF asNumbers /\ StrToNum(text).k = "fin" /\ Trim(text) # <<>>
            THEN JNum(StrToNum(text)) ELSE JStr(text)
    IN  Raw(JId(ExtId(1)), JStr(c.date), JStr(Bench), member(c.weight),
            member(c.reps), JUndef)

\* The candidate as the only row of a CSV file.
CandidateCsv(c) == CsvText(<< CsvRow(c.date, Bench, c.weight, c.reps, <<>>) >>)

ValInit ==
    \E c \in Candidates, b \in BOOLEAN :
        val = [stage |-> "start", cand |-> c, asNumbers |-> b,
               json |-> <<>>, csv |-> <<>>]

\* The JSON import's batch for the candidate.
ValJson ==
    /\ val.stage = "start"
    /\ val' = [val EXCEPT !.stage = "json",
                          !.json = JsonIncoming(<< CandidateJson(val.cand, val.asNumbers) >>, 0)]
    /\ UNCHANGED notVal

\* The CSV import's batch for the candidate.
ValCsv ==
    /\ val.stage = "json"
    /\ val' = [val EXCEPT !.stage = "done",
                          !.csv = csvRowsToLogs(parseCSV(CandidateCsv(val.cand)), 0)]
    /\ UNCHANGED notVal

ValNext == ValJson \/ ValCsv

InitValidate == ValInit /\ LocalIdle /\ mrg = Idle /\ csv = Idle /\ CloudIdle /\ UiIdle

SpecValidate == InitValidate /\ [][ValNext]_vars

\* --------------------------------------------------- mergeLogs on its inputs

\* Longest collection and longest batch mergeLogs is run on.
MaxBatch == 2

Yoga == << "y", "o", "g", "a" >>

\* The entries the collections and batches are made of; the last one is no Log
\* (its exercise is none of the nine).
MergeEntries ==
    { Log(ExtId(1), Date1, Bench, Fin(80), Fin(5), Absent),
      Log(ExtId(1), Date2, Bench, Fin(85), Fin(5), Note(<< "x" >>)),
      Log(ExtId(2), Date1, Squat, Fin(85), Fin(3), Absent),
      Log(ExtId(2), Date2, Squat, Fin(80), Fin(3), Absent),
      Log(ExtId(1), Date2, Yoga, Fin(90), Fin(5), Absent) }

SeqsUpTo(S, n) == UNION { [1..k -> S] : k \in 0..n }

MrgInit ==
    \E a \in SeqsUpTo(MergeEntries, MaxBatch), b \in SeqsUpTo(MergeEntries, MaxBatch) :
        mrg = [stage |-> "start", prev |-> a, incoming |-> b, out |-> <<>>]

MrgMerge ==
    /\ mrg.stage = "start"
    /\ mrg' = [mrg EXCEPT !.stage = "merged",
                          !.out = mergeLogs(mrg.prev, mrg.incoming)]
    /\ UNCHANGED notMrg

MrgNext == MrgMerge

InitMerge == MrgInit /\ LocalIdle /\ val = Idle /\ csv = Idle /\ CloudIdle /\ UiIdle

SpecMerge == InitMerge /\ [][MrgNext]_vars

\* ------------------------------------------------------- the CSV round trip

\* Most entries of a collection the round trip is run on.
MaxRows == 2

NoteChars == { ",", "\"", "\n", "a" }

\* The notes a stored entry can hold: absent, or a text that is not blank.
RoundTripNotes ==
    { Absent } \cup
    { Note(s) : s \in { t \in SeqsUpTo(NoteChars, MaxNoteLen) : Trim(t) # <<>> } }

\* Dates as a stored snapshot or a JSON file can supply them: any string.
QuotedDate == << "\"", "1", "\"" >>
CommaDate == << "1", ",", "2" >>

RoundTripEntries ==
    { Log(ExtId(1), Date1, Squat, Fin(100), Fin(3), n) : n \in RoundTripNotes }
    \cup { Log(ExtId(2), d, Bench, Fin(80), Fin(5), Absent) : d \in {QuotedDate, CommaDate} }

CsvInit ==
    \E ls \in SeqsUpTo(RoundTripEntries, MaxRows) :
        csv = [stage |-> "start", entries |-> ls, text |-> <<>>, rows |-> <<>>,
               out |-> <<>>]

CsvExport ==
    /\ csv.stage = "start"
    /\ csv' = [csv EXCEPT !.stage = "exported", !.text = toCSV(csv.entries)]
    /\ UNCHANGED notCsv

CsvParse ==
    /\ csv.stage = "exported"
    /\ csv' = [csv EXCEPT !.stage = "parsed", !.rows = parseCSV(csv.text)]
    /\ UNCHANGED notCsv

CsvConvert ==
    /\ csv.stage = "parsed"
    /\ csv' = [csv EXCEPT !.stage = "done", !.out = csvRowsToLogs(csv.rows, 0)]
    /\ UNCHANGED notCsv

CsvNext == CsvExport \/ CsvParse \/ CsvConvert

InitCsv == CsvInit /\ LocalIdle /\ val = Idle /\ mrg = Idle /\ CloudIdle /\ UiIdle

SpecCsv == InitCsv /\ [][CsvNext]_vars

\* ------------------------------------------------------- the cloud variant

\* The identifier the store gives the n-th row it creates.
RowId(n) == [k |-> "row", n |-> n]

\* The rows the migration effect submits: each stored element mapped, the ones
\* without a date or with weight or reps not greater than 0 filtered out.  A row
\* carries no id until the store creates it.
migrationRows(arr) ==
    DropNull([i \in 1..Len(arr) |->
        LET l == arr[i]
            date == Slice0(IF Truthy(l.date) THEN ToStr(l.date) ELSE <<>>, 10)
            w == ToNumber(l.weight)
            r == ToNumber(l.reps)
        IN  [ok |-> date # <<>> /\ NumGT(w, Fin(0)) /\ NumGT(r, Fin(0)),
             log |-> Log(RowId(0), date, normalizeExerciseJ(l.exercise), w, r,
                         NoteOfJ(l.note))]])

\* Whether the migration effect sends its batch insert: something is stored, it
\* parses, and it is or wraps a non-empty array.
migrates(doc) == doc.kind \in {"array", "wrapper"} /\ doc.items # <<>>

Request(n, kind, payload) ==
    [n |-> n, kind |-> kind, payload |-> payload, state |-> "sent",
     result |-> "none", data |-> <<>>]

\* The requests the two mount effects of AuthedApp send: the migration's batch
\* insert when there is a snapshot to migrate, and fetchLogs' select.
MountRequests(doc, n) ==
    IF migrates(doc)
    THEN { Request(n + 1, "migrate", migrationRows(doc.items)),
           Request(n + 2, "fetch", <<>>) }
    ELSE { Request(n + 1, "fetch", <<>>) }

\* What localStorage holds when the user first signs in.
CloudSnapshots ==
    { NoSnapshot, Doc("error", <<>>), Doc("wrapper", << RawValid1 >>),
      Doc("array", << RawNoId, RawZeroWeight >>) }

\* What the store holds when the user first signs in.
StoredRows ==
    { <<>>, << Log(RowId(1), Date1, Squat, Fin(100), Fin(3), Absent) >> }

CloudForms ==
    { Form(Bench, << "8", "0" >>, << "5" >>, << " ", "x", " " >>),
      Form(Bench, << "0" >>, << "5" >>, <<>>),
      Form(Bench, << "8", "0" >>, <<>>, <<>>) }

CloudInit ==
    \E doc \in CloudSnapshots, rows \in StoredRows :
        /\ logs = <<>>
        /\ selectedDate \in Days
        /\ nextId = 0
        /\ toast = Toast("", 0)
        /\ remote = rows
        /\ rowSeq = Len(rows)
        /\ snapshot = doc
        /\ pending = MountRequests(doc, 0)
        /\ issued = Cardinality(MountRequests(doc, 0))
        /\ lastReply = NoReply

canAddCloud_AnyNumber(f) == f.exercise # <<>> /\ f.weight # <<>> /\ f.reps # <<>>
canAddCloud(f) ==
    /\ f.exercise # <<>>
    /\ f.weight # <<>>
    /\ f.reps # <<>>
    /\ NumGT(StrToNum(f.weight), Fin(0))
    /\ NumGT(StrToNum(f.reps), Fin(0))

\* handleAdd up to its await: the insert request is sent.
AddSendStep(f) ==
    /\ IF canAddCloud(f)
       THEN /\ issued < MaxReq
            /\ pending' = pending \cup
                 { Request(issued + 1, "insert",
                           Log(RowId(0), formatDate(selectedDate), f.exercise,
                               StrToNum(f.weight), StrToNum(f.reps),
                               IF Trim(f.note) = <<>> THEN Absent ELSE Note(Trim(f.note)))) }
            /\ issued' = issued + 1
       ELSE UNCHANGED << pending, issued >>
    /\ UNCHANGED << localVars, pureVars, remote, rowSeq, snapshot, lastReply >>

AddSend(f) == AddSendStep(f) /\ UNCHANGED uiVars

\* handleDelete up to its await: the delete request is sent.
DeleteSend(id) ==
    /\ issued < MaxReq
    /\ pending' = pending \cup { Request(issued + 1, "delete", id) }
    /\ issued' = issued + 1
    /\ UNCHANGED << localVars, pureVars, uiVars, remote, rowSeq, snapshot, lastReply >>

\* The rows of a batch as the store creates them, numbered from base + 1.
Created(rows, base) ==
    [i \in 1..Len(rows) |-> [rows[i] EXCEPT !.id = RowId(base + i)]]

Reverse(xs) == [i \in 1..Len(xs) |-> xs[Len(xs) + 1 - i]]

\* .order("date", descending).order("created_at", descending)
Selected(rows) == SortByDateDesc(Reverse(rows), <<>>)

\* The store handles a request: it carries it out and answers ("ok"), answers with
\* an error and changes nothing ("error"), or the request's promise rejects
\* ("rejected").
Serve(r, outcome) ==
    /\ r \in pending
    /\ r.state = "sent"
    /\ LET rows == CASE r.kind = "insert" -> << r.payload >>
                     [] r.kind = "migrate" -> r.payload
                     [] OTHER -> <<>>
           made == Created(rows, rowSeq)
       IN  /\ remote' = CASE outcome # "ok" -> remote
                          [] r.kind = "delete" -> WithoutId(remote, r.payload)
                          [] OTHER -> remote \o made
           /\ rowSeq' = IF outcome = "ok" THEN rowSeq + Len(rows) ELSE rowSeq
           /\ pending' = (pending \ {r}) \cup
                { [r EXCEPT !.state = "answered", !.result = outcome,
                            !.data = CASE outcome # "ok" -> <<>>
                                       [] r.kind = "insert" -> made
                                       [] r.kind = "fetch" -> Selected(remote)
                                       [] OTHER -> <<>>] }
    /\ UNCHANGED << localVars, pureVars, uiVars, snapshot, issued, lastReply >>

\* A row of a reply as the handlers map it to a Log.
LogOfRow(row) ==
    Log(row.id, row.date, normalizeExercise(row.exercise), row.weight, row.reps,
        row.note)

\* handleAdd after its await.
AddReply(r) ==
    IF r.result = "ok"
    THEN /\ logs' = << LogOfRow(r.data[1]) >> \o logs
         /\ toast' = Toast("added", 0)
         /\ UNCHANGED snapshot
    ELSE UNCHANGED << logs, toast, snapshot >>

\* handleDelete after its await.
DeleteReply_IgnoringError(r) ==
    /\ logs' = WithoutId(logs, r.payload)
    /\ toast' = Toast("deleted", 0)
    /\ UNCHANGED snapshot
DeleteReply(r) ==
    IF r.result = "ok"
    THEN /\ logs' = WithoutId(logs, r.payload)
         /\ toast' = Toast("deleted", 0)
         /\ UNCHANGED snapshot
    ELSE UNCHANGED << logs, toast, snapshot >>

\* fetchLogs after its await.
FetchReply(r) ==
    IF r.result = "ok"
    THEN /\ logs' = [i \in 1..Len(r.data) |-> LogOfRow(r.data[i])]
         /\ UNCHANGED << toast, snapshot >>
    ELSE UNCHANGED << logs, toast, snapshot >>

\* The migration after its await: the callback of then() runs whenever the
\* promise resolves, with or without an error in the reply.
MigrateReply(r) ==
    /\ snapshot' = IF r.result = "rejected" THEN snapshot ELSE NoSnapshot
    /\ UNCHANGED << logs, toast >>

\* The reply of a request reaches the handler that awaits it.
DeliverStep(r) ==
    /\ r \in pending
    /\ r.state = "answered"
    /\ pending' = pending \ {r}
    /\ lastReply' = [kind |-> r.kind, result |-> r.result]
    /\ CASE r.kind = "insert" -> AddReply(r)
         [] r.kind = "delete" -> DeleteReply(r)
         [] r.kind = "fetch" -> FetchReply(r)
         [] OTHER -> MigrateReply(r)
    /\ UNCHANGED << selectedDate, nextId, pureVars, remote, rowSeq, issued >>

Deliver(r) == DeliverStep(r) /\ UNCHANGED uiVars

\* The user signs out and in again once no request is in flight: AuthedApp is
\* mounted anew and its mount effects run again.
SignInAgain ==
    /\ pending = {}
    /\ issued + Cardinality(MountRequests(snapshot, issued)) <= MaxReq
    /\ logs' = <<>>
    /\ toast' = Toast("", 0)
    /\ pending' = MountRequests(snapshot, issued)
    /\ issued' = issued + Cardinality(MountRequests(snapshot, issued))
    /\ lastReply' = NoReply
    /\ UNCHANGED << selectedDate, nextId, pureVars, uiVars, remote, rowSeq, snapshot >>

CloudNext ==
    \/ \E f \in CloudForms : AddSend(f)
    \/ \E i \in 1..Len(logs) : DeleteSend(logs[i].id)
    \/ \E d \in Days : setSelectedDate(d)
    \/ \E r \in pending, outcome \in {"ok", "error", "rejected"} : Serve(r, outcome)
    \/ \E r \in pending : Deliver(r)
    \/ SignInAgain

InitCloud == CloudInit /\ val = Idle /\ mrg = Idle /\ csv = Idle /\ UiIdle

SpecCloud == InitCloud /\ [][CloudNext]_vars

\* The cloud variant with a store that carries out and answers every request.
ServeOk(r) == Serve(r, "ok")

CloudOkNext ==
    \/ \E f \in CloudForms : AddSend(f)
    \/ \E i \in 1..Len(logs) : DeleteSend(logs[i].id)
    \/ \E d \in Days : setSelectedDate(d)
    \/ \E r \in pending : ServeOk(r)
    \/ \E r \in pending : Deliver(r)
    \/ SignInAgain

SpecCloudOk == InitCloud /\ [][CloudOkNext]_vars

\* ------------------------------------------------- the form of both builds

\* What the user can have typed into the form.
FormInputs ==
    { Form(Bench, << "8", "0" >>, << "5" >>, << " ", "x", " " >>),
      Form(Bench, << "0" >>, << "5" >>, <<>>),
      Form(Bench, << "a", "b" >>, << "3" >>, <<>>) }

\* setWeight(""); setReps(""); setNote("")
ResetForm(f) == [f EXCEPT !.weight = <<>>, !.reps = <<>>, !.note = <<>>]

FormSnapshots == { Doc("error", <<>>), Doc("wrapper", << RawValid1 >>) }

\* Either build once it has loaded: the local one with the stored collection, the
\* cloud one with nothing to migrate and the reply of fetchLogs, no row, delivered.
FormInit ==
    /\ variant \in {"local", "cloud"}
    /\ form = InitialForm
    /\ selectedDate \in Days
    /\ toast = Toast("", 0)
    /\ remote = <<>>
    /\ rowSeq = 0
    /\ snapshot = NoSnapshot
    /\ pending = {}
    /\ IF variant = "local"
       THEN /\ \E doc \in FormSnapshots :
                 /\ logs = LoadSnapshot(doc)
                 /\ nextId = GenCount(DocArray(doc), Len(DocArray(doc)))
            /\ issued = 0
            /\ lastReply = NoReply
       ELSE /\ logs = <<>>
            /\ nextId = 0
            /\ issued = Cardinality(MountRequests(NoSnapshot, 0))
            /\ lastReply = [kind |-> "fetch", result |-> "ok"]

\* The user edits the fields.
TypeForm(f) ==
    /\ form' = f
    /\ UNCHANGED << localVars, pureVars, cloudVars, variant,
                    now, timers, render, handleOf, shownAt, inflight >>

\* The add button of the local build: handleAdd on the fields, which it empties
\* when it adds.
SubmitLocal ==
    /\ variant = "local"
    /\ handleAddStep(form)
    /\ form' = IF canAdd(form) THEN ResetForm(form) ELSE form
    /\ UNCHANGED << pureVars, cloudVars, variant,
                    now, timers, render, handleOf, shownAt, inflight >>

\* The add button of the cloud build: handleAdd up to its await.
SubmitCloud ==
    /\ variant = "cloud"
    /\ AddSendStep(form)
    /\ UNCHANGED uiVars

\* The store handles a request of the cloud build.
FormServe(r, outcome) == variant = "cloud" /\ Serve(r, outcome)

\* A reply reaches its handler; handleAdd empties the fields when it adds.
FormDeliver(r) ==
    /\ variant = "cloud"
    /\ DeliverStep(r)
    /\ form' = IF r.kind = "insert" /\ r.result = "ok" THEN ResetForm(form) ELSE form
    /\ UNCHANGED << variant, now, timers, render, handleOf, shownAt, inflight >>

FormNext ==
    \/ \E f \in FormInputs : TypeForm(f)
    \/ SubmitLocal
    \/ SubmitCloud
    \/ \E r \in pending, outcome \in {"ok", "error", "rejected"} : FormServe(r, outcome)
    \/ \E r \in pending : FormDeliver(r)

InitForm == FormInit /\ val = Idle /\ mrg = Idle /\ csv = Idle /\ TimerIdle

SpecForm == InitForm /\ [][FormNext]_vars

\* ------------------------------------------------------------------ claims

ToSet(xs) == { xs[i] : i \in 1..Len(xs) }

\* The selected date as the collection's entries write it.
dateStr == formatDate(selectedDate)

\* C2: every entry of the in-memory collection has a non-empty date, weight > 0,
\* reps > 0 and one of the nine exercises.
C2_EveryEntryValid ==
    \A i \in 1..Len(logs) :
        /\ logs[i].date # <<>>
        /\ NumGT(logs[i].weight, Fin(0))
        /\ NumGT(logs[i].reps, Fin(0))
        /\ logs[i].exercise \in ExerciseSet

\* C3: no two entries of the in-memory collection have the same id.
C3_UniqueIds ==
    \A i, j \in 1..Len(logs) : i # j => logs[i].id # logs[j].id

\* C6: exporting the collection as {version, logs} and importing that document
\* into an empty collection gives back exactly the entries of the collection.
C6_JsonRoundTrip ==
    ToSet(mergeLogs(<<>>, JsonIncoming(DocArray(exportJSON(logs)), nextId)))
        = ToSet(logs)

\* The weights (NaN aside) of exercise e on the selected date (same = TRUE) or on
\* the other dates (same = FALSE).
WeightsOf(e, same) ==
    { logs[i].weight : i \in { j \in 1..Len(logs) :
                                 /\ logs[j].exercise = e
                                 /\ (logs[j].date = dateStr) = same
                                 /\ ~IsNaN(logs[j].weight) } }

\* The maximum of a set of weights, 0 when there are none.
MaxWeight(S) ==
    IF S = {} THEN Fin(0) ELSE CHOOSE w \in S : \A v \in S : ~NumGT(v, w)

\* C7: e is a personal record iff its best weight on the selected date is > 0 and
\* strictly greater than its best weight on the other dates; a tie is no record,
\* and an exercise with positive entries on the selected date only is one.
C7_PersonalRecords ==
    \A e \in ExerciseSet :
        LET today == MaxWeight(WeightsOf(e, TRUE))
            other == MaxWeight(WeightsOf(e, FALSE))
            isPR == e \in prSet(logs, dateStr)
        IN  /\ isPR <=> (NumGT(today, Fin(0)) /\ NumGT(today, other))
            /\ (WeightsOf(e, FALSE) # {} /\ today = other) => ~isPR
            /\ (WeightsOf(e, FALSE) = {} /\ NumGT(today, Fin(0))) => isPR

\* C7's case: an exercise whose best weight on the selected date equals its best
\* on another date, and which is no record.
C7_Witness ==
    \E e \in ExerciseSet :
        /\ WeightsOf(e, FALSE) # {}
        /\ NumGT(MaxWeight(WeightsOf(e, TRUE)), Fin(0))
        /\ MaxWeight(WeightsOf(e, TRUE)) = MaxWeight(WeightsOf(e, FALSE))
        /\ e \notin prSet(logs, dateStr)

\* C10: an import that fails leaves the collection, entries and order, as it was.
C10_FailedImportKeepsLogs ==
    [][\A file \in Files :
          (ImportFails(file) /\ onImportFile(file)) => logs' = logs]_vars

\* C10's case: a failure message is on screen over a collection that a merge
\* would have reordered.
C10_Witness ==
    /\ toast.msg \in {"badExtension", "importFailed"}
    /\ mergeLogs(logs, <<>>) # logs

\* The validity the record model states: a non-empty date, and weight and reps
\* numeric and greater than 0.
CandidateValid(c) ==
    /\ c.date # <<>>
    /\ NumGT(StrToNum(c.weight), Fin(0))
    /\ NumGT(StrToNum(c.reps), Fin(0))

\* C1: the JSON import and the CSV import each accept a candidate exactly when it is
\* valid, so the two never disagree on a candidate.
C1_ImportsValidateAlike ==
    val.stage = "done" =>
        /\ (Len(val.json) = 1) = CandidateValid(val.cand)
        /\ (Len(val.csv) = 1) = CandidateValid(val.cand)

\* The last isLog entry of batch b that has this id.
LastWithId(b, id) ==
    b[CHOOSE i \in 1..Len(b) :
        /\ b[i].id = id /\ isLog(b[i])
        /\ \A j \in (i + 1)..Len(b) : ~(b[j].id = id /\ isLog(b[j]))]

\* C4: for every valid entry of the batch, the merged collection holds exactly
\* one entry with its id, and that entry is the last valid one of the batch with
\* this id, whatever the collection held under the id.
C4_MergeLastWriteWins ==
    mrg.stage = "merged" =>
        \A i \in 1..Len(mrg.incoming) :
            isLog(mrg.incoming[i]) =>
                /\ Cardinality({ k \in 1..Len(mrg.out) :
                                   mrg.out[k].id = mrg.incoming[i].id }) = 1
                /\ \E k \in 1..Len(mrg.out) :
                       mrg.out[k] = LastWithId(mrg.incoming, mrg.incoming[i].id)

\* C4's case: the batch holds two valid entries of one id with different fields,
\* and the collection holds that id too, with fields of its own.
C4_Witness ==
    /\ mrg.stage = "merged"
    /\ \E i, j \in 1..Len(mrg.incoming), a \in 1..Len(mrg.prev) :
        /\ i < j
        /\ isLog(mrg.incoming[i]) /\ isLog(mrg.incoming[j])
        /\ mrg.incoming[i].id = mrg.incoming[j].id
        /\ mrg.incoming[i] # mrg.incoming[j]
        /\ mrg.prev[a].id = mrg.incoming[j].id
        /\ isLog(mrg.prev[a])
        /\ mrg.prev[a] # mrg.incoming[j]

\* C5: the CSV round trip gives as many entries as it was given, in the same order,
\* each equal to the original in date, exercise, weight, reps and note.
C5_CsvRoundTrip ==
    csv.stage = "done" =>
        /\ Len(csv.out) = Len(csv.entries)
        /\ \A i \in 1..Len(csv.entries) :
            i <= Len(csv.out) =>
                /\ csv.out[i].date = csv.entries[i].date
                /\ csv.out[i].exercise = csv.entries[i].exercise
                /\ csv.out[i].weight = csv.entries[i].weight
                /\ csv.out[i].reps = csv.entries[i].reps
                /\ csv.out[i].note = csv.entries[i].note

IdsOf(xs) == { xs[i].id : i \in 1..Len(xs) }

\* C8: the collection changes only in the step that hands a successful reply to its
\* handler (or when the application is mounted anew): a failed insert or delete
\* leaves it as it was, a confirmed insert adds the created row and nothing else,
\* a confirmed delete removes the deleted id and nothing else.
C8_WritesOnlyWhenConfirmed ==
    [][/\ logs' # logs =>
            \/ SignInAgain
            \/ \E r \in pending : r.state = "answered" /\ r.result = "ok" /\ Deliver(r)
       /\ \A r \in pending :
            (r.kind = "insert" /\ Deliver(r)) =>
                /\ IdsOf(logs') \ IdsOf(logs) \subseteq IdsOf(r.data)
                /\ IdsOf(logs) \subseteq IdsOf(logs')
       /\ \A r \in pending :
            (r.kind = "delete" /\ Deliver(r)) =>
                /\ IdsOf(logs) \ IdsOf(logs') \subseteq {r.payload}
                /\ IdsOf(logs') \subseteq IdsOf(logs)]_vars

\* C8's case: a delete was answered with an error and its entry is still in the
\* collection.
C8_Witness ==
    /\ lastReply = [kind |-> "delete", result |-> "error"]
    /\ logs # <<>>

\* C9: after the migration's batch insert succeeded the legacy snapshot is gone,
\* and after it failed the snapshot is still there.
C9_SnapshotKeptOnFailure ==
    /\ lastReply = [kind |-> "migrate", result |-> "ok"] => snapshot = NoSnapshot
    /\ (lastReply.kind = "migrate" /\ lastReply.result # "ok") => snapshot # NoSnapshot

\* C11: at most one dismissal timer is pending at any time, and no timer clears a
\* toast earlier than 2000 ms after the most recent showToast call.
C11_OneDismissalTimer ==
    [][/\ Cardinality(timers') <= 1
       /\ \A t \in timers :
            (TimerFires(t) /\ toast # Toast("", 0)) => now >= shownAt + Delay]_vars

\* The day after, across months and years.
NextDay(date) ==
    CASE date.d < DaysInMonth(date.y, date.m) -> DateOf(date.y, date.m, date.d + 1)
      [] date.m < 11 -> DateOf(date.y, date.m + 1, 1)
      [] OTHER -> DateOf(date.y + 1, 0, 1)

\* The calendar dates from first on, n of them.
RECURSIVE DatesFrom(_, _)
DatesFrom(first, n) ==
    IF n = 0 THEN <<>> ELSE << formatDate(first) >> \o DatesFrom(NextDay(first), n - 1)

\* The sum of weight * reps over the entries of the collection with this date.
RECURSIVE SumVolume(_, _)
SumVolume(ls, date) ==
    IF ls = <<>> THEN Fin(0)
    ELSE NumAdd(IF Head(ls).date = date
                THEN NumMul(Head(ls).weight, Head(ls).reps) ELSE Fin(0),
                SumVolume(Tail(ls), date))

\* C12: the daily volume series has exactly 30 points, one per calendar date of
\* the 30 days ending today in ascending order, and each point's volume is the sum
\* of weight * reps of the entries with that date.
C12_DailyVolumeSeries ==
    \A today \in Todays :
        LET series == dailyData(logs, today) IN
        /\ Len(series) = 30
        /\ series[30].date = formatDate(today)
        /\ \E first \in { DateOf(y, m, d) : y \in {2023, 2024}, m \in 0..11, d \in 1..31 } :
             /\ formatDate(first) = series[1].date
             /\ [k \in 1..30 |-> series[k].date] = DatesFrom(first, 30)
        /\ \A k \in 1..30 : series[k].vol = SumVolume(logs, series[k].date)

\* C13: no entry of the in-memory collection has a note that is empty or only
\* whitespace; such a note is stored as absent.
C13_NoBlankNote ==
    \A i \in 1..Len(logs) :
        logs[i].note = Absent \/ Trim(NoteText(logs[i].note)) # <<>>

\* C13's case: the entry stored or imported with the note " " is in the collection,
\* its note absent.
C13_Witness ==
    \E i \in 1..Len(logs) :
        /\ logs[i].id = ExtId(2)
        /\ logs[i].exercise = Squat
        /\ logs[i].weight = Fin(85)
        /\ logs[i].note = Absent

\* No entry is preceded by an entry with a strictly smaller date string.
DateDescending(ls) ==
    \A i, j \in 1..Len(ls) : i < j => ~StrLess(ls[i].date, ls[j].date)

\* C14: after every merge of an imported batch the collection is ordered by date
\* descending.
C14_MergeSortsByDate ==
    [][\/ DateDescending(logs')
       \/ \A file \in Files : ~(~ImportFails(file) /\ onImportFile(file))]_vars

\* C14's case: an import has merged its batch and the collection holds entries of
\* different dates.
C14_Witness ==
    /\ toast.msg \in {"jsonImported", "csvImported"}
    /\ \E i, j \in 1..Len(logs) : i < j /\ StrLess(logs[j].date, logs[i].date)

\* A field as the claim encodes it: wrapped in double quotes, each internal double
\* quote doubled, when it holds a comma, a double quote or a newline.
EncodedField(v) ==
    IF \E i \in 1..Len(v) : v[i] \in {",", "\"", "\n"}
    THEN << "\"" >> \o DoubleQuotes(v) \o << "\"" >>
    ELSE v

EncodedLine(l) ==
    Join(<< EncodedField(l.date), EncodedField(l.exercise),
            EncodedField(NumToStr(l.weight)), EncodedField(NumToStr(l.reps)),
            EncodedField(IF l.note = Absent THEN <<>> ELSE NoteText(l.note)) >>,
         << "," >>)

\* C15: in the text toCSV produces, every field holding a comma, a double quote or
\* a newline is wrapped in double quotes with its double quotes doubled, and an
\* absent note is an empty field.
C15_CsvFieldsEscaped ==
    csv.stage = "exported" =>
        csv.text = Join(CSV_HEADER, << "," >>) \o << "\n" >>
                   \o Join([i \in 1..Len(csv.entries) |-> EncodedLine(csv.entries[i])],
                           << "\n" >>)

\* The entries an import of this file hands to mergeLogs.
Incoming(file) ==
    IF file.ext = "json"
    THEN JsonIncoming(DocArray(file.doc), nextId)
    ELSE csvRowsToLogs(ParsedCsv[file.text], nextId)

\* C16: an import whose file parses is not aborted by the invalid records of its
\* batch, and the count it reports is the number of records of the batch that are
\* in the collection after the merge.
C16_ImportCountsMerged ==
    [][\A file \in Files :
          (~ImportFails(file) /\ onImportFile(file)) =>
              /\ toast'.msg \in {"jsonImported", "csvImported"}
              /\ toast'.n = Cardinality({ i \in 1..Len(Incoming(file)) :
                                            Incoming(file)[i] \in ToSet(logs') })]_vars

\* The weight or reps input is empty, non-numeric or not greater than 0.
InputRefused(f) ==
    \/ f.weight = <<>> \/ f.reps = <<>>
    \/ ~NumGT(StrToNum(f.weight), Fin(0))
    \/ ~NumGT(StrToNum(f.reps), Fin(0))

\* The step adds exactly one entry, of this date, to the collection.
AddsOne(date) ==
    /\ Len(logs') = Len(logs) + 1
    /\ Tail(logs') = logs
    /\ logs'[1].date = date

\* A submission with a refused input changes neither the collection nor the fields
\* and sends no request.
RefusedInputBlocked ==
    ((SubmitLocal \/ SubmitCloud) /\ InputRefused(form)) =>
        /\ logs' = logs
        /\ form' = form
        /\ pending' = pending

\* C17 as stated: a submission with a refused input is blocked, and a submission
\* that is not blocked adds exactly one entry dated with the selected date: the
\* local handler in its step, the cloud handler when it has run to its end.
C17_SubmissionAddsOne ==
    [][/\ RefusedInputBlocked
       /\ (SubmitLocal /\ canAdd(form)) => AddsOne(formatDate(selectedDate))
       /\ \A r \in pending :
            (r.kind = "insert" /\ FormDeliver(r)) => AddsOne(r.payload.date)]_vars

\* C17 amended: in the cloud build a submission that is not blocked sends exactly
\* one insert request dated with the selected date, and its handler adds exactly
\* one entry of that date when the insert is confirmed, none when it fails.
C17_SubmissionAddsOneWhenConfirmed ==
    [][/\ RefusedInputBlocked
       /\ (SubmitLocal /\ canAdd(form)) => AddsOne(formatDate(selectedDate))
       /\ (SubmitCloud /\ canAddCloud(form)) =>
            /\ logs' = logs
            /\ \E r \in pending' \ pending :
                 /\ pending' = pending \cup {r}
                 /\ r.kind = "insert"
                 /\ r.payload.date = formatDate(selectedDate)
       /\ \A r \in pending :
            (r.kind = "insert" /\ FormDeliver(r)) =>
                IF r.result = "ok" THEN AddsOne(r.payload.date) ELSE logs' = logs]_vars

\* C17's case: the cloud build holds an entry its handler added after the insert
\* was confirmed, the fields emptied, and a refused input typed since.
C17_Witness ==
    /\ variant = "cloud"
    /\ lastReply = [kind |-> "insert", result |-> "ok"]
    /\ logs # <<>>
    /\ InputRefused(form) /\ form.weight # <<>>

\* C18: once no request is in flight, the collection holds exactly the rows the
\* store holds for the user, each once.
C18_MemoryMatchesStore ==
    pending = {} =>
        /\ ToSet(logs) = { LogOfRow(remote[i]) : i \in 1..Len(remote) }
        /\ Len(logs) = Len(remote)

\* C19: a confirmed delete removes every entry with the deleted id and leaves the
\* other entries, in their order; when no entry has the id the collection is as it
\* was.
C19_DeleteRemovesOnlyThatId ==
    [][\A r \in pending :
          (r.kind = "delete" /\ r.result = "ok" /\ Deliver(r)) =>
              LET keep == { i \in 1..Len(logs) : logs[i].id # r.payload } IN
              /\ Len(logs') = Cardinality(keep)
              /\ \A i \in keep : logs'[Cardinality({ j \in keep : j <= i })] = logs[i]
              /\ r.payload \notin IdsOf(logs) => logs' = logs]_vars

\* C19's case: a delete was confirmed and other entries are still in the collection.
C19_Witness ==
    /\ lastReply = [kind |-> "delete", result |-> "ok"]
    /\ logs # <<>>

====
